---- MODULE Spec2Model ----
(***************************************************************************)
(* A model of the cosmic-wavs burn/infusion signing pipeline:              *)
(*   - script/cosmic-wavs (common.rs, wavs.rs): attribute parsing, digest  *)
(*     and signature, transaction body and envelope assembly;              *)
(*   - components/cosmic-wavs-infusion and cosmic-wavs-demo-infusion:      *)
(*     Component::run, decode_trigger_event, process_burn_event.           *)
(*                                                                         *)
(* Three state machines share the module:                                  *)
(*   Spec      one operator executing run / process_burn_event;            *)
(*   SpecFleet two operators processing the same burn event;               *)
(*   SpecLib   the library functions applied to arguments drawn from       *)
(*             bounded sets.                                               *)
(*                                                                         *)
(* Conventions.  Text is a TLA+ string; a Vec<u8> is a sequence of bytes   *)
(* (0..255); a u64 is its 8 big-endian bytes, so arithmetic keeps the      *)
(* 64-bit width.  Option<T> is a sequence of length <= 1.  SHA-256, BLS    *)
(* signing, hex and base64 are external libraries: they are modelled as    *)
(* collision-free constructors over their arguments.                       *)
(***************************************************************************)
EXTENDS Integers, Sequences, FiniteSets, TLC

VARIABLES
    lib,        \* SpecLib: the last library call, its arguments and result
    variant,    \* Spec: "infusion" (cosmic-wavs-infusion) or "demo"
    entry,      \* Spec: the function the cycle entered: run or process_burn_event
    pc,         \* Spec: position of the operator in run / process_burn_event
    trigger,    \* Spec: the TriggerData handed to run
    decoded,    \* Spec: decode_trigger_event's result
    args,       \* Spec: process_burn_event's parameters
    env,        \* Spec: the operator's environment (secrets, configuration)
    response,   \* Spec: on_chain_conditional, the WavsRecord query response
    infusions,  \* Spec: the WavsBundle records built from the response
    cosmic_wavs_actions, \* Spec: the Any messages to authorize
    signer,     \* Spec: Option of the imported BLS signer
    msg_digest, \* Spec: Option of the digest
    signatures, \* Spec: the signatures vector
    signer_infos, \* Spec: the signer_infos vector
    tx_body,    \* Spec: Option of the TxBody
    gas,        \* Spec: Option of the simulated gas
    tx,         \* Spec: Option of the broadcast Tx envelope
    cosm_res,   \* Spec: Option of the broadcast response
    net,        \* Spec: the network calls issued, in order
    result,     \* Spec: Option of run's ServiceResponse
    outcome,    \* Spec: what run / process_burn_event returned (or a panic)
    fleet,      \* SpecFleet: the operators' state
    bls         \* SpecBls: the signers, their signatures and the aggregate

libVars == <<lib>>
runVars == <<variant, entry, pc, trigger, decoded, args, env, response, infusions,
             cosmic_wavs_actions, signer, msg_digest, signatures, signer_infos,
             tx_body, gas, tx, cosm_res, net, result, outcome>>
fleetVars == <<fleet>>
blsVars == <<bls>>
vars == <<lib, variant, entry, pc, trigger, decoded, args, env, response, infusions,
          cosmic_wavs_actions, signer, msg_digest, signatures, signer_infos,
          tx_body, gas, tx, cosm_res, net, result, outcome, fleet, bls>>

---------------------------------------------------------------------------
(* Bounds of the model *)

\* longest attribute list of an event
MaxAttrs == 3
\* longest WavsRecord query response
MaxRecords == 3
\* longest message list / signature list handed to the library functions
MaxMsgs == 2

---------------------------------------------------------------------------
(* Option, Result and sequences *)

None == <<>>
Some(v) == <<v>>
IsSome(o) == Len(o) = 1
Unwrap(o) == o[1]

Ok(v) == [tag |-> "Ok", val |-> v]
Err(e) == [tag |-> "Err", val |-> e]
Panic(e) == [tag |-> "Panic", val |-> e]
IsOk(r) == r.tag = "Ok"
IsErr(r) == r.tag = "Err"
IsPanic(r) == r.tag = "Panic"

\* all sequences over S of length 0..n
SeqsUpTo(S, n) == UNION {[1..k -> S] : k \in 0..n}

RECURSIVE Concat(_)
\* Iterator::flatten over a sequence of sequences
Concat(ss) == IF ss = <<>> THEN <<>> ELSE Head(ss) \o Concat(Tail(ss))

---------------------------------------------------------------------------
(* u64: 8 big-endian bytes *)

U64Zero == <<0, 0, 0, 0, 0, 0, 0, 0>>
U64Max == <<255, 255, 255, 255, 255, 255, 255, 255>>

RECURSIVE MulAddFrom(_, _, _, _)
\* bytes 1..i of x * m + carry, and the carry out of byte 1
MulAddFrom(x, m, carry, i) ==
    IF i = 0 THEN <<<<>>, carry>>
    ELSE LET t == x[i] * m + carry
             rest == MulAddFrom(x, m, t \div 256, i - 1)
         IN <<Append(rest[1], t % 256), rest[2]>>

\* x * m + a in 64 bits: the wrapped value and whether it overflowed
U64MulAdd(x, m, a) ==
    LET r == MulAddFrom(x, m, a, 8)
    IN [val |-> r[1], overflow |-> r[2] # 0]

RECURSIVE U64FromNat(_, _)
\* the low i bytes of a small natural number, big-endian
U64FromNat(n, i) == IF i = 0 THEN <<>> ELSE Append(U64FromNat(n \div 256, i - 1), n % 256)

U64(n) == U64FromNat(n, 8)

\* u64::to_be_bytes
to_be_bytes(x) == x

---------------------------------------------------------------------------
(* Text and bytes *)

\* str::as_bytes for the strings of the model (ASCII)
StrTable == {
    [s |-> "", b |-> <<>>],
    [s |-> "42", b |-> <<52, 50>>],
    [s |-> "7", b |-> <<55>>],
    [s |-> "+7", b |-> <<43, 55>>],
    [s |-> "-1", b |-> <<45, 49>>],
    [s |-> "4x", b |-> <<52, 120>>],
    [s |-> "18446744073709551615",
     b |-> <<49, 56, 52, 52, 54, 55, 52, 52, 48, 55, 51, 55, 48, 57, 53, 53, 49, 54, 49, 53>>],
    [s |-> "18446744073709551616",
     b |-> <<49, 56, 52, 52, 54, 55, 52, 52, 48, 55, 51, 55, 48, 57, 53, 53, 49, 54, 49, 54>>],
    [s |-> "burn", b |-> <<98, 117, 114, 110>>],
    [s |-> "mint", b |-> <<109, 105, 110, 116>>],
    [s |-> "register_infusion",
     b |-> <<114, 101, 103, 105, 115, 116, 101, 114, 95, 105, 110, 102, 117, 115, 105, 111, 110>>],
    [s |-> "nft1abc", b |-> <<110, 102, 116, 49, 97, 98, 99>>],
    [s |-> "nft1def", b |-> <<110, 102, 116, 49, 100, 101, 102>>],
    [s |-> "cosmos1xyz", b |-> <<99, 111, 115, 109, 111, 115, 49, 120, 121, 122>>],
    [s |-> "cosmos1uvw", b |-> <<99, 111, 115, 109, 111, 115, 49, 117, 118, 119>>],
    [s |-> "layer-local", b |-> <<108, 97, 121, 101, 114, 45, 108, 111, 99, 97, 108>>],
    [s |-> "other-chain", b |-> <<111, 116, 104, 101, 114, 45, 99, 104, 97, 105, 110>>] }

as_bytes(s) == (CHOOSE r \in StrTable : r.s = s).b

\* the characters of the model's strings, by code
AsciiTable == {
    <<43, "+">>, <<45, "-">>, <<48, "0">>, <<49, "1">>, <<50, "2">>, <<51, "3">>,
    <<52, "4">>, <<53, "5">>, <<54, "6">>, <<55, "7">>, <<56, "8">>, <<57, "9">>,
    <<95, "_">>, <<97, "a">>, <<98, "b">>, <<99, "c">>, <<100, "d">>, <<101, "e">>,
    <<102, "f">>, <<103, "g">>, <<105, "i">>, <<108, "l">>, <<109, "m">>, <<110, "n">>,
    <<111, "o">>, <<114, "r">>, <<115, "s">>, <<116, "t">>, <<117, "u">>, <<118, "v">>,
    <<119, "w">>, <<120, "x">>, <<121, "y">>, <<122, "z">> }

Digit == <<"0", "1", "2", "3", "4", "5", "6", "7", "8", "9">>

RECURSIVE Dec(_)
\* u64 / usize Display for small numbers: decimal digits
Dec(n) == IF n < 10 THEN Digit[n + 1] ELSE Dec(n \div 10) \o Digit[(n % 10) + 1]

\* the one-character text of an ASCII byte
Chr(b) ==
    IF \E p \in AsciiTable : p[1] = b
    THEN (CHOOSE p \in AsciiTable : p[1] = b)[2]
    ELSE "\\x" \o Dec(b)

\* String::from_utf8(vec![b]): a single byte is valid UTF-8 iff it is ASCII
from_utf8_1(b) == IF b < 128 THEN Ok(Chr(b)) ELSE Err("invalid utf-8 sequence")

RECURSIVE ParseDigits(_, _, _)
\* the digit loop of u64::from_str: checked acc * 10 + digit
ParseDigits(b, i, acc) ==
    IF i > Len(b) THEN Ok(acc)
    ELSE IF b[i] \notin 48..57 THEN Err("invalid digit found in string")
    ELSE LET r == U64MulAdd(acc, 10, b[i] - 48)
         IN IF r.overflow THEN Err("number too large to fit in target type")
            ELSE ParseDigits(b, i + 1, r.val)

\* str::parse::<u64>: an optional leading '+', then decimal digits
parse_u64(s) ==
    LET b == as_bytes(s)
    IN IF Len(b) = 0 THEN Err("cannot parse integer from empty string")
       ELSE IF Len(b) = 1 /\ b[1] \in {43, 45} THEN Err("invalid digit found in string")
       ELSE IF b[1] = 43 THEN ParseDigits(b, 2, U64Zero)
       ELSE ParseDigits(b, 1, U64Zero)

---------------------------------------------------------------------------
(* common.rs *)

RECURSIVE FindLast(_, _)
\* a lookup that lets a later pair with the key win
FindLast(attributes, key) ==
    IF attributes = <<>> THEN None
    ELSE IF attributes[Len(attributes)][1] = key THEN Some(attributes[Len(attributes)])
    ELSE FindLast(SubSeq(attributes, 1, Len(attributes) - 1), key)

RECURSIVE Find(_, _)
\* attributes.iter().find(|(k, _)| k == key): Option of the first pair with the key
Find(attributes, key) ==
    IF attributes = <<>> THEN None
    ELSE IF Head(attributes)[1] = key THEN Some(Head(attributes))
    ELSE Find(Tail(attributes), key)

\* a lookup that reports an unparsable value as a missing attribute
parse_u64_attribute_merged(attributes, key) ==
    LET found == Find(attributes, key)
    IN IF IsSome(found) /\ IsOk(parse_u64(Unwrap(found)[2])) THEN parse_u64(Unwrap(found)[2])
       ELSE Err("Missing " \o key \o " attribute")

parse_u64_attribute(attributes, key) ==
    LET found == Find(attributes, key)
    IN IF ~IsSome(found) THEN Err("Missing " \o key \o " attribute")
       ELSE LET parsed == parse_u64(Unwrap(found)[2])
            IN IF IsOk(parsed) THEN parsed
               ELSE Err("Failed to parse " \o key \o " attribute to u64")

parse_string_attribute(attributes, key) ==
    LET found == Find(attributes, key)
    IN IF ~IsSome(found) THEN Err("Missing sender attribute")
       ELSE Ok(Unwrap(found)[2])

\* handle response from broadcasting tx
handle_tx_response(code, raw_log) ==
    IF code = 0 THEN Ok("unit")
    ELSE Err("Transaction failed with code " \o Dec(code) \o ": " \o raw_log)

---------------------------------------------------------------------------
(* JSON (serde_json / cosmwasm_std::to_json_binary) and protobuf encodings. *)
(* A JSON document and a protobuf message are kept as their text.           *)

JsonStr(s) == "\"" \o s \o "\""

RECURSIVE Join(_, _)
\* the items in order, separated by sep
Join(items, sep) ==
    IF items = <<>> THEN ""
    ELSE IF Len(items) = 1 THEN items[1]
    ELSE items[1] \o sep \o Join(Tail(items), sep)

\* a JSON array: the elements in the order of the sequence
JsonArray(items) == "[" \o Join(items, ",") \o "]"

\* cw_infusions::wavs::WavsBundle
WavsBundleJson(w) ==
    "{\"infuser\":" \o JsonStr(w.infuser)
    \o ",\"nft_addr\":" \o JsonStr(w.nft_addr)
    \o ",\"infused_ids\":" \o JsonArray([i \in 1..Len(w.infused_ids) |-> JsonStr(w.infused_ids[i])])
    \o "}"

\* to_json_binary(&cw_infuser::msg::ExecuteMsg::WavsEntryPoint { infusions })
WavsEntryPointJson(infs) ==
    "{\"wavs_entry_point\":{\"infusions\":"
    \o JsonArray([i \in 1..Len(infs) |-> WavsBundleJson(infs[i])]) \o "}}"

\* to_json_binary(&TxExtension { selected_authenticators })
TxExtensionJson(selected_authenticators) ==
    "{\"selected_authenticators\":"
    \o JsonArray([i \in 1..Len(selected_authenticators) |-> Dec(selected_authenticators[i])])
    \o "}"

\* one length-delimited protobuf field: tag, length, payload
ProtoField(n, s) == IF s = "" THEN "" ELSE "<" \o Dec(n) \o "," \o Dec(Len(s)) \o ">" \o s

\* prost encoding of cosmwasm.wasm.v1.MsgExecuteContract (funds is empty)
MsgExecuteContractProto(m) ==
    ProtoField(1, m.sender) \o ProtoField(2, m.contract) \o ProtoField(3, m.msg)

MSG_EXECUTE_CONTRACT_TYPE == "/cosmwasm.wasm.v1.MsgExecuteContract"

\* Any::from_msg(&MsgExecuteContract { .. })
AnyFromMsgExecuteContract(m) ==
    [type_url |-> MSG_EXECUTE_CONTRACT_TYPE, value |-> MsgExecuteContractProto(m)]

\* serde of one Any
AnyJson(a) == "{\"type_url\":" \o JsonStr(a.type_url) \o ",\"value\":" \o JsonStr(a.value) \o "}"

\* to_json_binary(&cosmic_wavs_actions): the array of the messages, in order
AnyListJson(actions) == JsonArray([i \in 1..Len(actions) |-> AnyJson(actions[i])])

---------------------------------------------------------------------------
(* External cryptography, modelled as collision-free constructors *)

\* sha2::Sha256::digest
Sha256(data) == "sha256(" \o data \o ")"
\* cosmwasm_std::to_base64
to_base64(d) == "base64(" \o d \o ")"
\* hex::encode
hex_encode(x) == "hex(" \o x \o ")"

\* the BLS private-key texts an operator may be configured with:
\* text, whether hex::decode accepts it, whether PrivateKey::decode accepts
\* the decoded bytes, and the scalar it denotes
BlsKeyTable == {
    [text |-> "5ea020a2126f5658bda5c94663a8b5a8e4917d2a7426e0d01b148a67734451b3",
     hex_ok |-> TRUE, key_ok |-> TRUE, sk |-> "sk1"],
    [text |-> "2b1f0c3a9d4e5f60718293a4b5c6d7e8f90a1b2c3d4e5f60718293a4b5c6d7e8",
     hex_ok |-> TRUE, key_ok |-> TRUE, sk |-> "sk2"],
    [text |-> "", hex_ok |-> TRUE, key_ok |-> FALSE, sk |-> "none"],
    [text |-> "5ea0", hex_ok |-> TRUE, key_ok |-> FALSE, sk |-> "none"],
    [text |-> "not-hex", hex_ok |-> FALSE, key_ok |-> FALSE, sk |-> "none"] }

BlsKeyTexts == {k.text : k \in BlsKeyTable}
ValidBlsKeyTexts == {k.text : k \in {x \in BlsKeyTable : x.hex_ok /\ x.key_ok}}
BlsKey(text) == CHOOSE k \in BlsKeyTable : k.text = text

\* commonware_cryptography::Signer::public_key
public_key(imported_signer) == "bls_pk(" \o imported_signer.sk \o ")"

\* the payload a namespace and a message make: None leaves the message alone
union_unique(namespace, message) ==
    IF IsSome(namespace) THEN Unwrap(namespace) \o "|" \o message ELSE message

\* commonware_cryptography::Signer::sign(namespace, message)
sign(imported_signer, namespace, message) ==
    "bls_sig(" \o imported_signer.sk \o "," \o union_unique(namespace, message) \o ")"

---------------------------------------------------------------------------
(* wavs.rs *)

TX_EXTENSION_TYPE == "/bitsong.smartaccount.v1beta1.TxExtension"

RECURSIVE SetText(_)
\* the elements of a set of texts, in an order that depends on the set alone
SetText(S) == IF S = {} THEN "" ELSE LET x == CHOOSE x \in S : TRUE IN x \o "," \o SetText(S \ {x})

\* a digest that forgets the order of the messages
MsgDigestUnordered(actions) ==
    Sha256(Dec(Len(actions)) \o ":" \o SetText({AnyJson(actions[i]) : i \in 1..Len(actions)}))

\* the digest all operators sign: SHA-256 of the JSON of the message array
MsgDigest(actions) == Sha256(AnyListJson(actions))

form_smart_account_msg(imported_signer, actions) ==
    LET digest == MsgDigest(actions)
        signature == sign(imported_signer, None, digest)
    IN Ok(<<digest, signature>>)

get_smart_account(wavs_bls_sk) ==
    LET k == BlsKey(wavs_bls_sk)
    IN IF ~k.hex_ok THEN Err("Invalid character in hex string")
       ELSE IF ~k.key_ok THEN Err("invalid private key encoding")
       ELSE Ok([sk |-> k.sk])

\* a signer info that leaves the public key out
get_smart_acount_signer_info_unkeyed(pk) ==
    [public_key |-> None, mode_info |-> None, sequence |-> 0]

get_smart_acount_signer_info(pk) ==
    [public_key |-> Some([type_url |-> "/cosmos.crypto.bls12_381.PubKey", value |-> pk]),
     mode_info |-> None,
     sequence |-> 0]

\* current_height + 100: overflow panics when the build checks overflow and
\* wraps otherwise
form_smart_acccount_tx_body(current_height, actions, selected_authenticators, overflow_checks) ==
    LET th == U64MulAdd(current_height, 1, 100)
    IN IF th.overflow /\ overflow_checks THEN Panic("attempt to add with overflow")
       ELSE Ok([messages |-> actions,
                memo |-> "Cosmic Wavs Account Action",
                timeout_height |-> th.val,
                extension_options |-> <<>>,
                non_critical_extension_options |->
                    <<[type_url |-> TX_EXTENSION_TYPE,
                       value |-> TxExtensionJson(selected_authenticators)]>>])

\* gas_to_use * 2: overflow as above
form_wavs_tx(tx_body_, gas_to_use, signer_infos_, signatures_, overflow_checks) ==
    LET gl == U64MulAdd(gas_to_use, 2, 0)
    IN IF gl.overflow /\ overflow_checks THEN Panic("attempt to multiply with overflow")
       ELSE Ok([body |-> Some(tx_body_),
                auth_info |-> Some([signer_infos |-> signer_infos_,
                                    fee |-> Some([amount |-> <<[denom |-> "ubtsg", amount |-> "40000"]>>,
                                                  gas_limit |-> gl.val,
                                                  payer |-> "",
                                                  granter |-> ""]),
                                    tip |-> None]),
                signatures |-> signatures_])

---------------------------------------------------------------------------
(* Initial state: nothing has been called *)

Init ==
    /\ lib = [fn |-> "idle"]
    /\ variant = "none"
    /\ entry = "none"
    /\ pc = "idle"
    /\ trigger = None
    /\ decoded = None
    /\ args = None
    /\ env = None
    /\ response = None
    /\ infusions = <<>>
    /\ cosmic_wavs_actions = <<>>
    /\ signer = None
    /\ msg_digest = None
    /\ signatures = <<>>
    /\ signer_infos = <<>>
    /\ tx_body = None
    /\ gas = None
    /\ tx = None
    /\ cosm_res = None
    /\ net = <<>>
    /\ result = None
    /\ outcome = None
    /\ fleet = [started |-> FALSE]
    /\ bls = [phase |-> "idle"]

---------------------------------------------------------------------------
(* SpecLib: the library functions applied to drawn arguments *)

LibAttrPairs ==
    ({"sender"} \X {"cosmos1xyz", "cosmos1uvw", ""})
    \cup ({"token_id"} \X {"42", "+7", "4x", "", "18446744073709551615", "18446744073709551616"})
LibAttrLists == SeqsUpTo(LibAttrPairs, MaxAttrs)
LibLookupKeys == {"sender", "token_id", "action"}

LibSigners == {[sk |-> "sk1"], [sk |-> "sk2"]}
LibAnys == {
    [type_url |-> MSG_EXECUTE_CONTRACT_TYPE, value |-> "a"],
    [type_url |-> MSG_EXECUTE_CONTRACT_TYPE, value |-> "ab"],
    [type_url |-> "/cosmos.bank.v1beta1.MsgSend", value |-> "a"] }
LibBundles == SeqsUpTo(LibAnys, MaxMsgs)

LibGas == {U64(80000), <<128, 0, 0, 0, 0, 0, 0, 0>>, U64Max}
LibSignatures == {sign(s, None, MsgDigest(<<>>)) : s \in LibSigners}
LibSignerInfos == {get_smart_acount_signer_info(public_key(s)) : s \in LibSigners}
LibTxBody == form_smart_acccount_tx_body(U64(1000), <<>>, <<1>>, FALSE).val

CallParseString ==
    /\ lib.fn = "idle"
    /\ \E attributes \in LibAttrLists, key \in LibLookupKeys :
          lib' = [fn |-> "parse_string_attribute", args |-> <<attributes, key>>,
                  ret |-> parse_string_attribute(attributes, key)]
    /\ UNCHANGED <<runVars, fleetVars, blsVars>>

CallParseU64 ==
    /\ lib.fn = "idle"
    /\ \E attributes \in LibAttrLists, key \in LibLookupKeys :
          lib' = [fn |-> "parse_u64_attribute", args |-> <<attributes, key>>,
                  ret |-> parse_u64_attribute(attributes, key)]
    /\ UNCHANGED <<runVars, fleetVars, blsVars>>

\* two independent calls, as two processes make them
CallFormSmartAccountMsg ==
    /\ lib.fn = "idle"
    /\ \E s1 \in LibSigners, s2 \in LibSigners, a1 \in LibBundles, a2 \in LibBundles :
          lib' = [fn |-> "form_smart_account_msg", args |-> <<<<s1, a1>>, <<s2, a2>>>>,
                  ret |-> <<form_smart_account_msg(s1, a1), form_smart_account_msg(s2, a2)>>]
    /\ UNCHANGED <<runVars, fleetVars, blsVars>>

CallFormWavsTx ==
    /\ lib.fn = "idle"
    /\ \E g \in LibGas, infos \in SeqsUpTo(LibSignerInfos, MaxMsgs),
          sigs \in SeqsUpTo(LibSignatures, MaxMsgs), checks \in BOOLEAN :
          lib' = [fn |-> "form_wavs_tx", args |-> <<LibTxBody, g, infos, sigs>>,
                  ret |-> form_wavs_tx(LibTxBody, g, infos, sigs, checks)]
    /\ UNCHANGED <<runVars, fleetVars, blsVars>>

NextLib ==
    \/ CallParseString
    \/ CallParseU64
    \/ CallFormSmartAccountMsg
    \/ CallFormWavsTx

SpecLib == Init /\ [][NextLib]_vars

---------------------------------------------------------------------------
(* The components: cosmic-wavs-infusion ("infusion") and                    *)
(* cosmic-wavs-demo-infusion ("demo")                                       *)

Variants == {"infusion", "demo"}

\* the text of a u64's bytes
U64Text(x) == Join([i \in 1..Len(x) |-> Dec(x[i])], ".")
\* the text of a byte vector
BytesText(b) == JsonArray([i \in 1..Len(b) |-> Dec(b[i])])

WavsBlsCosmosActionAuthJson(d) ==
    "{\"pubkey_g2\":" \o JsonStr(d.pubkey_g2)
    \o ",\"base64_msg_hash\":" \o JsonStr(d.base64_msg_hash)
    \o ",\"msg\":" \o BytesText(d.msg)
    \o ",\"signature\":" \o JsonStr(d.signature) \o "}"

\* serde_json::to_vec(&ServiceResponse)
ServiceResponseJson(r) ==
    "{\"message\":" \o JsonStr(r.message)
    \o ",\"success\":" \o (IF r.success THEN "true" ELSE "false")
    \o ",\"data\":" \o (IF IsSome(r.data) THEN WavsBlsCosmosActionAuthJson(Unwrap(r.data)) ELSE "null")
    \o "}"

\* solidity::DataWithId { triggerId, data }.abi_encode()
encode_trigger_output(trigger_id, output) ==
    "DataWithId{triggerId:" \o U64Text(trigger_id) \o ",data:" \o output \o "}"

NonInfusion == [message |-> "non-infusion", success |-> TRUE, data |-> None]

\* the sender lookup of decode_trigger_event
DecodeSender(v, attributes) ==
    IF v = "infusion" THEN parse_string_attribute(attributes, "sender")
    ELSE LET found == Find(attributes, "sender")
         IN IF IsSome(found) THEN Ok(Unwrap(found)[2]) ELSE Err("Missing sender attribute")

\* the token_id lookup of decode_trigger_event
DecodeTokenId(v, attributes) ==
    IF v = "infusion" THEN parse_u64_attribute(attributes, "token_id")
    ELSE LET found == Find(attributes, "token_id")
         IN IF IsSome(found) THEN parse_u64(Unwrap(found)[2]) ELSE Err("Missing token_id attribute")

\* the payload of a burn event: the fields' bytes, flattened
BurnPayload(v, t, token_id, sender) ==
    Concat(<<as_bytes(t.contract_address), to_be_bytes(token_id), as_bytes(sender)>>
           \o (IF v = "infusion" THEN <<as_bytes(t.chain_name)>> ELSE <<>>))

\* a decoder that sends the events it does not handle to the local output
decode_trigger_event_local(v, t) ==
    CASE t.kind = "EthContractEvent" ->
            IF ~t.log_ok THEN Err("failed to decode the event log")
            ELSE IF ~t.info_ok THEN Err("failed to decode TriggerInfo")
            ELSE Ok(<<t.triggerId, t.data, "Ethereum", None>>)
      [] t.kind = "CosmosContractEvent" ->
            LET event_type == Some(t.event.ty)
                action_attr == Find(t.event.attributes, "action")
            IN IF t.event.ty = "wasm" /\ IsSome(action_attr) /\ Unwrap(action_attr)[2] = "burn"
               THEN LET sender == DecodeSender(v, t.event.attributes)
                        token_id == DecodeTokenId(v, t.event.attributes)
                    IN IF IsErr(sender) THEN sender
                       ELSE IF IsErr(token_id) THEN token_id
                       ELSE Ok(<<t.block_height, BurnPayload(v, t, token_id.val, sender.val),
                                 "Cosmos", event_type>>)
               ELSE Ok(<<U64Zero, <<>>, "CliOutput", event_type>>)
      [] t.kind = "Raw" -> Ok(<<U64Zero, t.data, "CliOutput", None>>)
      [] OTHER -> Err("Unsupported trigger data type")

\* (block_height | trigger id, payload, destination, event_type)
decode_trigger_event(v, t) ==
    CASE t.kind = "EthContractEvent" ->
            IF ~t.log_ok THEN Err("failed to decode the event log")
            ELSE IF ~t.info_ok THEN Err("failed to decode TriggerInfo")
            ELSE Ok(<<t.triggerId, t.data, "Ethereum", None>>)
      [] t.kind = "CosmosContractEvent" ->
            LET event_type == Some(t.event.ty)
                action_attr == Find(t.event.attributes, "action")
            IN IF t.event.ty = "wasm" /\ IsSome(action_attr) /\ Unwrap(action_attr)[2] = "burn"
               THEN LET sender == DecodeSender(v, t.event.attributes)
                        token_id == DecodeTokenId(v, t.event.attributes)
                    IN IF IsErr(sender) THEN sender
                       ELSE IF IsErr(token_id) THEN token_id
                       ELSE Ok(<<t.block_height, BurnPayload(v, t, token_id.val, sender.val),
                                 "Cosmos", event_type>>)
               ELSE Ok(<<U64Zero, <<>>, "Cosmos", event_type>>)
      [] t.kind = "Raw" -> Ok(<<U64Zero, t.data, "CliOutput", None>>)
      [] OTHER -> Err("Unsupported trigger data type")

\* the messages of run's four payload reads
ReadFailure == <<"Failed to deserialize nft-address burnt: ", "Failed to deserialize token-id burnt: ",
                 "Failed to deserialize bundle burner: ", "Failed to deserialize bundle burner: ">>

RECURSIVE ReadPayload(_, _, _)
\* String::from_utf8(vec![req[i]]) for the positions i..n in turn (1-based):
\* an index past the end panics, a byte that is not UTF-8 returns the error
ReadPayload(req, i, n) ==
    IF i > n THEN Ok(<<>>)
    ELSE IF i > Len(req) THEN Panic("index out of bounds")
    ELSE LET f == from_utf8_1(req[i])
         IN IF IsErr(f) THEN Err(ReadFailure[i] \o f.val)
            ELSE LET rest == ReadPayload(req, i + 1, n)
                 IN IF IsOk(rest) THEN Ok(<<f.val>> \o rest.val) ELSE rest

\* how many positions of the payload run's burn branch reads
PayloadReads(v) == IF v = "infusion" THEN 4 ELSE 3

CURRENT_CHAIN_COSMOS == "layer-local"

\* the branch of run's match on event_type, up to the call of process_burn_event:
\* the ServiceResponse of the default branch, the early return, the panic, or the call
RunBranch(v, d, config_present) ==
    IF d[4] = Some("burn")
    THEN LET fields == ReadPayload(d[2], 1, PayloadReads(v))
         IN IF ~IsOk(fields) THEN fields
            ELSE IF ~config_present
                 THEN Err("failed: Failed to get Cosmos chain config for layer-local")
            ELSE [tag |-> "Call",
                  val |-> [block_height |-> d[1], nft_addr |-> fields.val[1],
                           token_id |-> fields.val[2], burner |-> fields.val[3],
                           chain |-> IF v = "infusion" THEN fields.val[4] ELSE CURRENT_CHAIN_COSMOS]]
    ELSE Ok(NonInfusion)

\* an output that wraps the result for no destination
RunOutputBare(dest, block_height, json_result) == Some(json_result)

\* run's output for a destination
RunOutput(dest, block_height, json_result) ==
    IF dest = "Ethereum" THEN Some(encode_trigger_output(block_height, json_result))
    ELSE Some(json_result)

---------------------------------------------------------------------------
(* Spec: run *)

EventTypes == {"wasm", "burn", "transfer"}
AttrPairs == {<<"action", "burn">>, <<"action", "register_infusion">>, <<"action", "mint">>,
              <<"sender", "cosmos1xyz">>, <<"sender", "cosmos1uvw">>,
              <<"token_id", "42">>, <<"token_id", "4x">>}
AttrLists == SeqsUpTo(AttrPairs, MaxAttrs)
Heights == {U64(1000), <<255, 255, 255, 255, 255, 255, 255, 200>>}
RawPayloads == {<<>>, <<110, 52, 99>>, <<110, 200, 99, 108>>, <<110, 52, 99, 108>>}

pipelineVars == <<args, env, response, infusions, cosmic_wavs_actions, signer, msg_digest,
                  signatures, signer_infos, tx_body, gas, tx, cosm_res, net>>

Enter(v, t) ==
    /\ pc = "idle"
    /\ lib.fn = "idle"
    /\ ~fleet.started
    /\ variant' = v
    /\ entry' = "run"
    /\ trigger' = Some(t)
    /\ pc' = "decode"
    /\ UNCHANGED <<decoded, result, outcome, pipelineVars, libVars, fleetVars, blsVars>>

\* run is handed a Cosmos contract event
RunCosmosEvent ==
    /\ pc = "idle"
    /\ \E v \in Variants, ty \in EventTypes, attributes \in AttrLists :
           Enter(v, [kind |-> "CosmosContractEvent",
                     contract_address |-> "nft1abc", chain_name |-> "layer-local",
                     event |-> [ty |-> ty, attributes |-> attributes],
                     block_height |-> U64(1000)])

\* run is handed an Ethereum contract log
RunEthEvent ==
    /\ pc = "idle"
    /\ \E v \in Variants, log_ok \in BOOLEAN, info_ok \in BOOLEAN, id \in {U64(1), U64(7)},
          data \in RawPayloads :
           Enter(v, [kind |-> "EthContractEvent", log_ok |-> log_ok, info_ok |-> info_ok,
                     triggerId |-> id, data |-> data])

\* run is handed raw bytes
RunRaw ==
    /\ pc = "idle"
    /\ \E v \in Variants, data \in RawPayloads : Enter(v, [kind |-> "Raw", data |-> data])

\* run is handed any other trigger
RunOther ==
    /\ pc = "idle"
    /\ \E v \in Variants, k \in {"BlockInterval", "Cron"} : Enter(v, [kind |-> k])

\* a decoding whose errors are taken for an event of no interest
DecodeSwallowed ==
    /\ pc = "decode"
    /\ LET r == decode_trigger_event(variant, Unwrap(trigger))
       IN decoded' = Some(IF IsOk(r) THEN r.val ELSE <<U64Zero, <<>>, "Cosmos", None>>)
    /\ pc' = "dispatch"
    /\ outcome' = outcome
    /\ UNCHANGED <<variant, entry, trigger, result, pipelineVars, libVars, fleetVars, blsVars>>

\* let (block_height, req, dest, event_type) = decode_trigger_event(action.data)?
Decode ==
    /\ pc = "decode"
    /\ LET r == decode_trigger_event(variant, Unwrap(trigger))
       IN IF IsOk(r)
          THEN /\ decoded' = Some(r.val)
               /\ pc' = "dispatch"
               /\ outcome' = outcome
          ELSE /\ decoded' = decoded
               /\ pc' = "done"
               /\ outcome' = Some(Err(r.val))
    /\ UNCHANGED <<variant, entry, trigger, result, pipelineVars, libVars, fleetVars, blsVars>>

\* the match on event_type
Dispatch ==
    /\ pc = "dispatch"
    /\ \E config_present \in BOOLEAN :
          LET b == RunBranch(variant, Unwrap(decoded), config_present)
          IN CASE b.tag = "Ok" ->
                    /\ result' = Some(b.val)
                    /\ pc' = "encode"
                    /\ UNCHANGED <<outcome, args>>
               [] b.tag = "Call" ->
                    /\ args' = Some(b.val)
                    /\ pc' = "p_env"
                    /\ UNCHANGED <<outcome, result>>
               [] OTHER ->
                    /\ outcome' = Some(b)
                    /\ pc' = "done"
                    /\ UNCHANGED <<result, args>>
    /\ UNCHANGED <<variant, entry, trigger, decoded, env, response, infusions,
                   cosmic_wavs_actions, signer, msg_digest, signatures, signer_infos,
                   tx_body, gas, tx, cosm_res, net, libVars, fleetVars, blsVars>>

\* serialize the result and return it for the destination
Encode ==
    /\ pc = "encode"
    /\ LET d == Unwrap(decoded)
       IN outcome' = Some(Ok(RunOutput(d[3], d[1], ServiceResponseJson(Unwrap(result)))))
    /\ pc' = "done"
    /\ UNCHANGED <<variant, entry, trigger, decoded, result, pipelineVars, libVars, fleetVars, blsVars>>

---------------------------------------------------------------------------
(* process_burn_event: its pure parts *)

\* a builder that takes the sanctioned records last first
BuildInfusionsReversed(records, burner, token_id) ==
    LET S == {i \in 1..Len(records) : records[i].count # <<>>}
        kth(j) == CHOOSE i \in S : Cardinality({k \in S : k > i}) = j - 1
    IN [j \in 1..Cardinality(S) |->
           [infuser |-> burner, nft_addr |-> records[kth(j)].addr, infused_ids |-> <<token_id>>]]

\* a builder that makes a WavsBundle of every record, sanctioned or not
BuildInfusionsAll(records, burner, token_id) ==
    [i \in 1..Len(records) |->
        [infuser |-> burner, nft_addr |-> records[i].addr, infused_ids |-> <<token_id>>]]

RECURSIVE BuildInfusions(_, _, _)
\* for record in on_chain_conditional: push a WavsBundle if record.count is Some
BuildInfusions(records, burner, token_id) ==
    IF records = <<>> THEN <<>>
    ELSE LET rest == BuildInfusions(Tail(records), burner, token_id)
         IN IF IsSome(Head(records).count)
            THEN <<[infuser |-> burner, nft_addr |-> Head(records).addr,
                    infused_ids |-> <<token_id>>]>> \o rest
            ELSE rest

\* chain_config.address_from_pub_key: a bech32 address of the key
address_from_pub_key(prefix, pk) == prefix \o "1" \o pk

BECH32_PREFIX == "bitsong"

\* the sender taken from the operator's own fee-payer key
ActionSenderOwnKey(v, e) ==
    address_from_pub_key(BECH32_PREFIX, "secp256k1_pk(" \o Unwrap(e.mnemonic) \o ")")

\* the sender of the authorized message: the smart account of the deployment
ActionSender(v, e) ==
    IF v = "infusion" THEN address_from_pub_key(BECH32_PREFIX, Unwrap(e.smart_acc_pk))
    ELSE e.operator_addr

\* the Any message wrapping ExecuteMsg::WavsEntryPoint { infusions }
WavsAnyMsg(sender, contract, infs) ==
    AnyFromMsgExecuteContract([sender |-> sender, contract |-> contract,
                               msg |-> WavsEntryPointJson(infs)])

\* cosmic_wavs_actions: "infusion" pushes the message only for a non-empty
\* infusions vector, "demo" pushes it always
BuildActions(v, e, infs) ==
    IF v = "infusion" /\ Len(infs) = 0 THEN <<>>
    ELSE <<WavsAnyMsg(ActionSender(v, e), Unwrap(e.cw_infuser), infs)>>

\* the TxBody: "infusion" calls form_smart_acccount_tx_body, "demo" builds it in place
BuildTxBody(v, block_height, actions, overflow_checks) ==
    IF v = "infusion"
    THEN form_smart_acccount_tx_body(block_height, actions, <<1>>, overflow_checks)
    ELSE Ok([messages |-> actions,
             memo |-> "Cosmic Wavs Account Action",
             timeout_height |-> U64(100),
             extension_options |-> <<>>,
             non_critical_extension_options |->
                 <<[type_url |-> TX_EXTENSION_TYPE, value |-> TxExtensionJson(<<1>>)]>>])

\* the Tx envelope: "infusion" calls form_wavs_tx, "demo" builds it in place
AssembleTx(v, body, gas_used, infos, sigs, overflow_checks) ==
    IF v = "infusion" THEN form_wavs_tx(body, gas_used, infos, sigs, overflow_checks)
    ELSE LET gl == U64MulAdd(gas_used, 2, 0)
         IN IF gl.overflow /\ overflow_checks THEN Panic("attempt to multiply with overflow")
            ELSE Ok([body |-> Some(body),
                     auth_info |-> Some([signer_infos |-> infos,
                                         fee |-> Some([amount |-> <<[denom |-> "ubtsg", amount |-> "100"]>>,
                                                       gas_limit |-> gl.val,
                                                       payer |-> "",
                                                       granter |-> ""]),
                                         tip |-> None]),
                     signatures |-> sigs])

\* the object to use with other operators
ServiceRes(digest, signature, imported_signer) ==
    [pubkey_g2 |-> hex_encode(public_key(imported_signer)),
     base64_msg_hash |-> to_base64(digest),
     msg |-> <<>>,
     signature |-> hex_encode(signature)]

BurnRecorded(data) == [message |-> "Burn recorded", success |-> TRUE, data |-> data]
RecordFailure(data) == [message |-> "Infusion record failuter", success |-> FALSE, data |-> data]

\* what process_burn_event returns once the broadcast answered with a code
BroadcastResult(v, code, raw_log, service_res) ==
    IF v = "infusion"
    THEN LET h == handle_tx_response(code, raw_log)
         IN IF IsErr(h) THEN h
            ELSE IF code # 0 THEN Ok(RecordFailure(Some(service_res)))
            ELSE Ok(BurnRecorded(None))
    ELSE IF code # 0 THEN Ok(RecordFailure(Some(service_res)))
         ELSE Ok(BurnRecorded(Some(service_res)))

---------------------------------------------------------------------------
(* Spec: process_burn_event, step by step *)

ValidMnemonic == "abandon ability able about above absent"
EnvMnemonics == {None, Some(ValidMnemonic), Some("not a mnemonic")}
EnvBlsKeys == {None} \cup {Some(k) : k \in BlsKeyTexts}
ValidAccPk == "02a1633cafcc01ebfb6d78e39f687a1f0995c62fc95f51ead10a02ee0be551b5dc"
EnvAccPks == {None, Some(ValidAccPk), Some("not-a-key")}
ValidInfuser == "bitsong1infuser"
EnvInfusers == {None, Some(ValidInfuser), Some("stars1...")}

Records == [addr : {"nft1abc", "nft1def"}, count : {None, Some(3)}]
Responses == SeqsUpTo(Records, MaxRecords)
GasValues == {U64(80000), <<128, 0, 0, 0, 0, 0, 0, 0>>}
Codes == {0, 5, 13}
RawLog(code) == IF code = 0 THEN "" ELSE IF code = 5 THEN "insufficient funds" ELSE "insufficient fee"

\* process_burn_event is called with its parameters
CallProcessBurnEvent ==
    /\ pc = "idle"
    /\ lib.fn = "idle"
    /\ ~fleet.started
    /\ \E v \in Variants, h \in Heights :
          /\ variant' = v
          /\ args' = Some([block_height |-> h, nft_addr |-> "nft1abc", token_id |-> "42",
                           burner |-> "cosmos1xyz", chain |-> "layer-local"])
    /\ entry' = "process_burn_event"
    /\ pc' = "p_env"
    /\ UNCHANGED <<trigger, decoded, result, outcome, env, response, infusions,
                   cosmic_wavs_actions, signer, msg_digest, signatures, signer_infos,
                   tx_body, gas, tx, cosm_res, net, libVars, fleetVars, blsVars>>

\* process_burn_event returns r (or panics with it)
Finish(r) ==
    IF entry = "run" /\ IsOk(r)
    THEN /\ result' = Some(r.val)
         /\ pc' = "encode"
         /\ outcome' = outcome
    ELSE /\ result' = result
         /\ pc' = "done"
         /\ outcome' = Some(IF entry = "run" /\ IsErr(r)
                            THEN Err("Failed to process burn event: " \o r.val)
                            ELSE r)

Continue(next) ==
    /\ pc' = next
    /\ UNCHANGED <<result, outcome>>

\* the secrets and addresses: read from the environment ("infusion"), or the
\* mnemonic from the environment and the rest from the constants ("demo")
ReadEnv ==
    /\ pc = "p_env"
    /\ \E m \in EnvMnemonics, k \in EnvBlsKeys, a \in EnvAccPks, i \in EnvInfusers :
          /\ variant = "demo" => k # None /\ i # None /\ a = None
          /\ env' = Some([mnemonic |-> m, bls_sk |-> k, smart_acc_pk |-> a, cw_infuser |-> i,
                          operator_addr |-> "bitsong1operator"])
          /\ IF m = None
             THEN Finish(Panic("Missing 'WAVS_SECP256k1_MNEMONIC'"))
             ELSE IF variant = "infusion" /\ k = None
             THEN Finish(Panic("Missing 'WAVS_BLS_PK'"))
             ELSE IF Unwrap(m) # ValidMnemonic
             THEN Finish(Panic("called Result::unwrap() on an Err value"))
             ELSE IF variant = "infusion" /\ a = None
             THEN Finish(Panic("Missing 'WAVS_SMART_ACC_PK'"))
             ELSE IF variant = "infusion" /\ Unwrap(a) # ValidAccPk
             THEN Finish(Panic("should always exists"))
             ELSE Continue("p_connect")
    /\ UNCHANGED <<variant, entry, trigger, decoded, args, response, infusions,
                   cosmic_wavs_actions, signer, msg_digest, signatures, signer_infos,
                   tx_body, gas, tx, cosm_res, net, libVars, fleetVars, blsVars>>

\* SigningClient::new(..).await?, then the infuser address
Connect ==
    /\ pc = "p_connect"
    /\ net' = Append(net, "connect")
    /\ \/ Finish(Err("failed to connect to the chain"))
       \/ IF variant = "infusion" /\ Unwrap(env).cw_infuser = None
          THEN Finish(Panic("Missing 'WAVS_CW_INFUSER'"))
          ELSE Continue("p_query")
    /\ UNCHANGED <<variant, entry, trigger, decoded, args, env, response, infusions,
                   cosmic_wavs_actions, signer, msg_digest, signatures, signer_infos,
                   tx_body, gas, tx, cosm_res, libVars, fleetVars, blsVars>>

\* a query that is issued again when it fails
QueryRetried ==
    /\ pc = "p_query"
    /\ IF Unwrap(Unwrap(env).cw_infuser) # ValidInfuser
       THEN /\ Finish(Err("invalid bech32 address"))
            /\ UNCHANGED <<net, response>>
       ELSE /\ net' = Append(net, "query")
            /\ \/ /\ Continue("p_query")
                  /\ response' = response
               \/ \E r \in Responses :
                     /\ response' = Some(r)
                     /\ Continue("p_build")
    /\ UNCHANGED <<variant, entry, trigger, decoded, args, env, infusions,
                   cosmic_wavs_actions, signer, msg_digest, signatures, signer_infos,
                   tx_body, gas, tx, cosm_res, libVars, fleetVars, blsVars>>

\* the WavsRecord contract query
Query ==
    /\ pc = "p_query"
    /\ IF Unwrap(Unwrap(env).cw_infuser) # ValidInfuser
       THEN /\ Finish(Err("invalid bech32 address"))
            /\ UNCHANGED <<net, response>>
       ELSE /\ net' = Append(net, "query")
            /\ \/ /\ Finish(Err("contract query failed"))
                  /\ response' = response
               \/ \E r \in Responses :
                     /\ response' = Some(r)
                     /\ Continue("p_build")
    /\ UNCHANGED <<variant, entry, trigger, decoded, args, env, infusions,
                   cosmic_wavs_actions, signer, msg_digest, signatures, signer_infos,
                   tx_body, gas, tx, cosm_res, libVars, fleetVars, blsVars>>

\* form msgs for operators to sign
BuildActionSet ==
    /\ pc = "p_build"
    /\ LET infs == BuildInfusions(Unwrap(response), Unwrap(args).burner, Unwrap(args).token_id)
       IN /\ infusions' = infs
          /\ cosmic_wavs_actions' = BuildActions(variant, Unwrap(env), infs)
          /\ IF variant = "infusion" /\ Len(infs) = 0
             THEN Finish(Ok(BurnRecorded(None)))
             ELSE Continue("p_signer")
    /\ UNCHANGED <<variant, entry, trigger, decoded, args, env, response,
                   signer, msg_digest, signatures, signer_infos,
                   tx_body, gas, tx, cosm_res, net, libVars, fleetVars, blsVars>>

\* an import after which the body is formed at once, with nothing signed
ImportSignerUnsigned ==
    /\ pc = "p_signer"
    /\ LET r == get_smart_account(Unwrap(Unwrap(env).bls_sk))
       IN IF IsOk(r)
          THEN /\ signer' = Some(r.val)
               /\ Continue("p_body")
          ELSE /\ signer' = signer
               /\ Finish(r)
    /\ UNCHANGED <<variant, entry, trigger, decoded, args, env, response, infusions,
                   cosmic_wavs_actions, msg_digest, signatures, signer_infos,
                   tx_body, gas, tx, cosm_res, net, libVars, fleetVars, blsVars>>

\* import the BLS private key
ImportSigner ==
    /\ pc = "p_signer"
    /\ LET r == get_smart_account(Unwrap(Unwrap(env).bls_sk))
       IN IF IsOk(r)
          THEN /\ signer' = Some(r.val)
               /\ Continue(IF variant = "infusion" THEN "p_account" ELSE "p_digest")
          ELSE /\ signer' = signer
               /\ Finish(r)
    /\ UNCHANGED <<variant, entry, trigger, decoded, args, env, response, infusions,
                   cosmic_wavs_actions, msg_digest, signatures, signer_infos,
                   tx_body, gas, tx, cosm_res, net, libVars, fleetVars, blsVars>>

\* the base_account lookup of the smart account
BaseAccount ==
    /\ pc = "p_account"
    /\ net' = Append(net, "base_account")
    /\ \/ Finish(Err("account not found"))
       \/ Continue(IF variant = "infusion" THEN "p_digest" ELSE "p_simulate")
    /\ UNCHANGED <<variant, entry, trigger, decoded, args, env, response, infusions,
                   cosmic_wavs_actions, signer, msg_digest, signatures, signer_infos,
                   tx_body, gas, tx, cosm_res, libVars, fleetVars, blsVars>>

\* the sha256 digest of the messages
Digest ==
    /\ pc = "p_digest"
    /\ msg_digest' = Some(MsgDigest(cosmic_wavs_actions))
    /\ Continue("p_sign")
    /\ UNCHANGED <<variant, entry, trigger, decoded, args, env, response, infusions,
                   cosmic_wavs_actions, signer, signatures, signer_infos,
                   tx_body, gas, tx, cosm_res, net, libVars, fleetVars, blsVars>>

\* sign the digest and push the signature
Sign ==
    /\ pc = "p_sign"
    /\ signatures' = Append(signatures, sign(Unwrap(signer), None, Unwrap(msg_digest)))
    /\ Continue("p_body")
    /\ UNCHANGED <<variant, entry, trigger, decoded, args, env, response, infusions,
                   cosmic_wavs_actions, signer, msg_digest, signer_infos,
                   tx_body, gas, tx, cosm_res, net, libVars, fleetVars, blsVars>>

\* the transaction body
FormTxBody ==
    /\ pc = "p_body"
    /\ \E overflow_checks \in BOOLEAN :
          LET r == BuildTxBody(variant, Unwrap(args).block_height, cosmic_wavs_actions,
                               overflow_checks)
          IN IF IsOk(r)
             THEN /\ tx_body' = Some(r.val)
                  /\ Continue(IF variant = "infusion" THEN "p_simulate" ELSE "p_account")
             ELSE /\ tx_body' = tx_body
                  /\ Finish(r)
    /\ UNCHANGED <<variant, entry, trigger, decoded, args, env, response, infusions,
                   cosmic_wavs_actions, signer, msg_digest, signatures, signer_infos,
                   gas, tx, cosm_res, net, libVars, fleetVars, blsVars>>

\* a simulation that is issued again when it fails
SimulateGasRetried ==
    /\ pc = "p_simulate"
    /\ net' = Append(net, "simulate")
    /\ \/ /\ Continue("p_simulate")
          /\ UNCHANGED <<gas, signer_infos>>
       \/ \E g \in GasValues :
             /\ gas' = Some(g)
             /\ signer_infos' = Append(signer_infos,
                                       get_smart_acount_signer_info(public_key(Unwrap(signer))))
             /\ Continue("p_broadcast")
    /\ UNCHANGED <<variant, entry, trigger, decoded, args, env, response, infusions,
                   cosmic_wavs_actions, signer, msg_digest, signatures,
                   tx_body, tx, cosm_res, libVars, fleetVars, blsVars>>

\* simulate the transaction for its gas, then push the signer info
SimulateGas ==
    /\ pc = "p_simulate"
    /\ net' = Append(net, "simulate")
    /\ \/ /\ Finish(Err("gas simulation failed"))
          /\ UNCHANGED <<gas, signer_infos>>
       \/ \E g \in GasValues :
             /\ gas' = Some(g)
             /\ signer_infos' = Append(signer_infos,
                                       get_smart_acount_signer_info(public_key(Unwrap(signer))))
             /\ Continue("p_broadcast")
    /\ UNCHANGED <<variant, entry, trigger, decoded, args, env, response, infusions,
                   cosmic_wavs_actions, signer, msg_digest, signatures,
                   tx_body, tx, cosm_res, libVars, fleetVars, blsVars>>

\* assemble the envelope and broadcast it
Broadcast ==
    /\ pc = "p_broadcast"
    /\ \E overflow_checks \in BOOLEAN :
          LET r == AssembleTx(variant, Unwrap(tx_body), Unwrap(gas), signer_infos, signatures,
                              overflow_checks)
          IN IF ~IsOk(r)
             THEN /\ Finish(r)
                  /\ UNCHANGED <<tx, cosm_res, net>>
             ELSE /\ tx' = Some(r.val)
                  /\ net' = Append(net, "broadcast")
                  /\ \/ /\ Finish(Err("broadcast: transport error"))
                        /\ cosm_res' = cosm_res
                     \/ \E code \in Codes :
                           /\ cosm_res' = Some([code |-> code, raw_log |-> RawLog(code)])
                           /\ Continue("p_respond")
    /\ UNCHANGED <<variant, entry, trigger, decoded, args, env, response, infusions,
                   cosmic_wavs_actions, signer, msg_digest, signatures, signer_infos,
                   tx_body, gas, libVars, fleetVars, blsVars>>

\* a response handler that submits the envelope again when it was rejected
RespondResubmitting ==
    /\ pc = "p_respond"
    /\ LET res == Unwrap(cosm_res)
           service_res == ServiceRes(Unwrap(msg_digest), signatures[Len(signatures)],
                                     Unwrap(signer))
       IN IF res.code # 0 THEN Continue("p_broadcast")
          ELSE Finish(BroadcastResult(variant, res.code, res.raw_log, service_res))
    /\ UNCHANGED <<variant, entry, trigger, decoded, args, env, response, infusions,
                   cosmic_wavs_actions, signer, msg_digest, signatures, signer_infos,
                   tx_body, gas, tx, cosm_res, net, libVars, fleetVars, blsVars>>

\* handle the transaction response
Respond ==
    /\ pc = "p_respond"
    /\ LET res == Unwrap(cosm_res)
           service_res == ServiceRes(Unwrap(msg_digest), signatures[Len(signatures)],
                                     Unwrap(signer))
       IN Finish(BroadcastResult(variant, res.code, res.raw_log, service_res))
    /\ UNCHANGED <<variant, entry, trigger, decoded, args, env, response, infusions,
                   cosmic_wavs_actions, signer, msg_digest, signatures, signer_infos,
                   tx_body, gas, tx, cosm_res, net, libVars, fleetVars, blsVars>>

NextRun ==
    \/ RunCosmosEvent
    \/ RunEthEvent
    \/ RunRaw
    \/ RunOther
    \/ Decode
    \/ Dispatch
    \/ Encode

NextPipeline ==
    \/ CallProcessBurnEvent
    \/ ReadEnv
    \/ Connect
    \/ Query
    \/ BuildActionSet
    \/ ImportSigner
    \/ BaseAccount
    \/ Digest
    \/ Sign
    \/ FormTxBody
    \/ SimulateGas
    \/ Broadcast
    \/ Respond

Next == NextRun \/ NextPipeline

Spec == Init /\ [][Next]_vars

---------------------------------------------------------------------------
(* SpecFleet: two operators, each with its own BLS key and fee-payer         *)
(* mnemonic, process the same burn event against the same chain state and    *)
(* the same deployment (smart account, infuser contract).                    *)

Operators == {1, 2}
FleetMnemonics == {ValidMnemonic, "zoo zone zero year young wrong"}

\* operator o's environment
FleetEnv(o) ==
    [mnemonic |-> Some(fleet.ops[o].mnemonic), bls_sk |-> Some(fleet.ops[o].bls_sk),
     smart_acc_pk |-> Some(ValidAccPk), cw_infuser |-> Some(ValidInfuser),
     operator_addr |-> "bitsong1operator"]

FleetStart ==
    /\ pc = "idle"
    /\ lib.fn = "idle"
    /\ ~fleet.started
    /\ \E v \in Variants, r \in Responses, m2 \in FleetMnemonics,
          k1 \in ValidBlsKeyTexts, k2 \in ValidBlsKeyTexts :
          fleet' = [started |-> TRUE, variant |-> v, response |-> r,
                    burner |-> "cosmos1xyz", token_id |-> "42",
                    ops |-> [o \in Operators |->
                               [mnemonic |-> IF o = 1 THEN ValidMnemonic ELSE m2,
                                bls_sk |-> IF o = 1 THEN k1 ELSE k2,
                                pc |-> "p_build", actions |-> <<>>,
                                digest |-> None, signature |-> None]]]
    /\ UNCHANGED <<runVars, libVars, blsVars>>

\* operator o forms the messages to sign
FleetBuild(o) ==
    /\ fleet.started
    /\ fleet.ops[o].pc = "p_build"
    /\ LET infs == BuildInfusions(fleet.response, fleet.burner, fleet.token_id)
       IN fleet' = [fleet EXCEPT
                      !.ops[o].actions = BuildActions(fleet.variant, FleetEnv(o), infs),
                      !.ops[o].pc = IF fleet.variant = "infusion" /\ Len(infs) = 0
                                    THEN "done" ELSE "p_digest"]
    /\ UNCHANGED <<runVars, libVars, blsVars>>

\* operator o computes the digest
FleetDigest(o) ==
    /\ fleet.started
    /\ fleet.ops[o].pc = "p_digest"
    /\ fleet' = [fleet EXCEPT !.ops[o].digest = Some(MsgDigest(fleet.ops[o].actions)),
                              !.ops[o].pc = "p_sign"]
    /\ UNCHANGED <<runVars, libVars, blsVars>>

\* operator o signs its digest with its own key
FleetSign(o) ==
    /\ fleet.started
    /\ fleet.ops[o].pc = "p_sign"
    /\ fleet' = [fleet EXCEPT
                   !.ops[o].signature =
                       Some(sign(get_smart_account(fleet.ops[o].bls_sk).val, None,
                                 Unwrap(fleet.ops[o].digest))),
                   !.ops[o].pc = "done"]
    /\ UNCHANGED <<runVars, libVars, blsVars>>

NextFleet ==
    \/ FleetStart
    \/ \E o \in Operators : FleetBuild(o)
    \/ \E o \in Operators : FleetDigest(o)
    \/ \E o \in Operators : FleetSign(o)

SpecFleet == Init /\ [][NextFleet]_vars

---------------------------------------------------------------------------
(* BLS12-381 as the tests use it (commonware_cryptography, cosmwasm_std).   *)
(* G1 and G2 have the same prime order; a point is kept as its multiple of  *)
(* the generator, so the group law is addition modulo the order, and the    *)
(* pairing of a*g1 and b*g2 is the multiple a*b of the target group's       *)
(* generator.  The hash to G2 is kept free of collisions.                   *)

\* the order of G1 and G2: a small prime in the place of the curve's
GroupOrder == 13

\* let n_signers = 3
N_SIGNERS == 3

BLS12_381_G1_GENERATOR == 1

\* the domain-separation tag of the signature scheme
DST == "BLS_SIG_BLS12381G2_XMD:SHA-256_SSWU_RO_POP_"
\* a tag of another ciphersuite
DST_OTHER == "BLS_SIG_BLS12381G2_XMD:SHA-256_SSWU_RO_NUL_"

TAMPERED == "TAMPERED: different message"
BlsDigests == {"digest1", "digest2"}
BlsMessages == BlsDigests \cup {TAMPERED}
BlsNamespaces == {None, Some("demo")}

\* the payloads that are hashed: union_unique of a namespace and a message
HashPayloads ==
    <<"digest1", "digest2", TAMPERED,
      "demo|digest1", "demo|digest2", "demo|" \o TAMPERED>>

\* hash_to_g2(dst, payload): a point of G2 other than the identity, a
\* different one for every tag and payload
hash_to_g2(dst, payload) ==
    LET i == CHOOSE i \in 1..Len(HashPayloads) : HashPayloads[i] = payload
    IN IF dst = DST THEN i ELSE i + Len(HashPayloads)

\* the public key of a private scalar: private * g1
compute_public(private) == (private * BLS12_381_G1_GENERATOR) % GroupOrder

\* a signature under the tag of another ciphersuite
sign_message_other_dst(private, namespace, message) ==
    (private * hash_to_g2(DST_OTHER, union_unique(namespace, message))) % GroupOrder

\* ops::sign_message, which Signer::sign applies to its private key:
\* private * H(DST, namespace | message)
sign_message(private, namespace, message) ==
    (private * hash_to_g2(DST, union_unique(namespace, message))) % GroupOrder

\* e(p, q)
pairing(p, q) == (p * q) % GroupOrder

\* Api::bls12_381_pairing_equality: e(ps, qs) = e(r, s)
bls12_381_pairing_equality(ps, qs, r, s) == pairing(ps, qs) = pairing(r, s)

\* Verifier::verify: e(pub_key, H(DST, namespace | message)) = e(g1, signature)
verify(namespace, message, pub_key, signature) ==
    pairing(pub_key, hash_to_g2(DST, union_unique(namespace, message)))
        = pairing(BLS12_381_G1_GENERATOR, signature)

\* vec![Scalar::one(); n]
ones(n) == [i \in 1..n |-> 1]

RECURSIVE msm_chained(_, _)
\* a sum that doubles what it has before it adds the next point
msm_chained(points, scalars) ==
    IF points = <<>> THEN 0
    ELSE (Head(scalars) * Head(points) + 2 * msm_chained(Tail(points), Tail(scalars))) % GroupOrder

RECURSIVE msm(_, _)
\* G1::msm / G2::msm: the sum of scalars[i] * points[i]
msm(points, scalars) ==
    IF points = <<>> THEN 0
    ELSE (Head(scalars) * Head(points) + msm(Tail(points), Tail(scalars))) % GroupOrder

\* Api::bls12_381_aggregate_g1 / bls12_381_aggregate_g2, ops::aggregate_signatures
aggregate(points) == msm(points, ones(Len(points)))

\* a verification that takes any aggregate but the identity
aggregate_verify_unchecked(pks, namespace, message, signature) == signature # 0

\* ops::aggregate_verify_multiple_public_keys: the signature is verified
\* against the sum of the public keys
aggregate_verify_multiple_public_keys(pks, namespace, message, signature) ==
    verify(namespace, message, aggregate(pks), signature)

---------------------------------------------------------------------------
(* SpecBls: N_SIGNERS operators sign a digest each on their own; the        *)
(* signatures are aggregated as they arrive and the aggregate is verified.  *)

Signers == 1..N_SIGNERS
KeyScalars == {2, 3, 5, 11}

\* every signer signs the message, or one signs another message, or one of
\* the keys used for verification is exchanged
BlsScenarios ==
    {[kind |-> "honest", op |-> 0, key |-> 0]}
    \cup [kind : {"tamper"}, op : Signers, key : {0}]
    \cup [kind : {"wrong_key"}, op : Signers, key : KeyScalars]

\* what signer o signs
SignedMessage(o) ==
    IF bls.scenario.kind = "tamper" /\ bls.scenario.op = o THEN TAMPERED ELSE bls.message

\* generate the keys, choose the message
BlsSetup ==
    /\ bls.phase = "idle"
    /\ pc = "idle"
    /\ lib.fn = "idle"
    /\ ~fleet.started
    /\ \E private \in [Signers -> KeyScalars], namespace \in BlsNamespaces,
          message \in BlsDigests, scenario \in BlsScenarios :
          /\ \A a \in Signers, b \in Signers : a # b => private[a] # private[b]
          /\ bls' = [phase |-> "signing", private |-> private, namespace |-> namespace,
                     message |-> message, scenario |-> scenario,
                     pks |-> [o \in Signers |->
                                IF scenario.kind = "wrong_key" /\ scenario.op = o
                                THEN compute_public(scenario.key)
                                ELSE compute_public(private[o])],
                     arrived |-> <<>>, signatures |-> <<>>, valid |-> <<>>,
                     pairing_ok |-> <<>>, aggregate |-> 0, verdict |-> None]
    /\ UNCHANGED <<runVars, libVars, fleetVars>>

\* signer o signs, its signature is verified on its own and joins the aggregate
BlsSign(o) ==
    /\ bls.phase = "signing"
    /\ \A j \in 1..Len(bls.arrived) : bls.arrived[j] # o
    /\ LET signature == sign_message(bls.private[o], bls.namespace, SignedMessage(o))
           pk == compute_public(bls.private[o])
       IN bls' = [bls EXCEPT
                    !.arrived = Append(@, o),
                    !.signatures = Append(@, signature),
                    !.valid = Append(@, verify(bls.namespace, SignedMessage(o),
                                               pk, signature)),
                    !.pairing_ok = Append(@, bls12_381_pairing_equality(
                                                 BLS12_381_G1_GENERATOR,
                                                 aggregate(<<signature>>),
                                                 aggregate(<<pk>>),
                                                 hash_to_g2(DST, SignedMessage(o)))),
                    !.aggregate = aggregate(Append(bls.signatures, signature))]
    /\ UNCHANGED <<runVars, libVars, fleetVars>>

\* the aggregate of all signers is verified against the public keys
BlsVerify ==
    /\ bls.phase = "signing"
    /\ Len(bls.arrived) = N_SIGNERS
    /\ bls' = [bls EXCEPT
                 !.phase = "verified",
                 !.verdict = Some(aggregate_verify_multiple_public_keys(
                                      bls.pks, bls.namespace, bls.message, bls.aggregate))]
    /\ UNCHANGED <<runVars, libVars, fleetVars>>

NextBls ==
    \/ BlsSetup
    \/ \E o \in Signers : BlsSign(o)
    \/ BlsVerify

SpecBls == Init /\ [][NextBls]_vars

---------------------------------------------------------------------------
(* Properties *)

Range(f) == {f[i] : i \in 1..Len(f)}

\* process_burn_event was entered and has returned
PipelineDone == entry = "process_burn_event" /\ pc = "done" /\ IsSome(outcome)

\* the positions of the response entries that sanction the burn
SomeEntries(resp) == {i \in 1..Len(resp) : IsSome(resp[i].count)}

\* the position of the j-th sanctioning entry
KthSome(resp, j) ==
    CHOOSE i \in SomeEntries(resp) : Cardinality({k \in SomeEntries(resp) : k < i}) = j - 1

\* the query was answered and the bundle was built from the answer
Built == entry = "process_burn_event" /\ IsSome(response) /\ pc # "p_build"

\* C1: two operators holding different BLS keys and different fee-payer
\* mnemonics, given the same burn event and the same query response, compute
\* the same 32-byte digest.
C1_DigestAgreesAcrossOperators ==
    \A o1 \in Operators, o2 \in Operators :
        (fleet.started /\ IsSome(fleet.ops[o1].digest) /\ IsSome(fleet.ops[o2].digest))
            => fleet.ops[o1].digest = fleet.ops[o2].digest

\* both operators have signed a non-empty bundle with different keys
C1_Witness ==
    /\ fleet.started
    /\ fleet.ops[1].bls_sk # fleet.ops[2].bls_sk
    /\ fleet.ops[1].mnemonic # fleet.ops[2].mnemonic
    /\ SomeEntries(fleet.response) # {}
    /\ IsSome(fleet.ops[1].signature) /\ IsSome(fleet.ops[2].signature)
    /\ fleet.ops[1].signature # fleet.ops[2].signature
    /\ fleet.ops[1].actions # <<>>

\* the two bundles hold the same messages, each as often
SameMessages(a1, a2) ==
    /\ Len(a1) = Len(a2)
    /\ \A m \in Range(a1) \cup Range(a2) :
          Cardinality({i \in 1..Len(a1) : a1[i] = m}) = Cardinality({i \in 1..Len(a2) : a2[i] = m})

\* C2: two bundles holding the same messages have equal digests only when
\* the messages are in the same order; a different order gives a different
\* digest (the hash being collision-free).
C2_DigestDependsOnOrder ==
    (lib.fn = "form_smart_account_msg"
        /\ SameMessages(lib.args[1][2], lib.args[2][2]))
        => ((lib.ret[1].val[1] = lib.ret[2].val[1]) <=> (lib.args[1][2] = lib.args[2][2]))

\* the same two messages in the two orders, digests differ
C2_Witness ==
    /\ lib.fn = "form_smart_account_msg"
    /\ Len(lib.args[1][2]) = 2
    /\ lib.args[1][2][1] # lib.args[1][2][2]
    /\ lib.args[2][2] = <<lib.args[1][2][2], lib.args[1][2][1]>>
    /\ lib.ret[1].val[1] # lib.ret[2].val[1]

\* C3: when no entry of the query response sanctions the burn, the pipeline
\* signs nothing, simulates nothing, broadcasts nothing, and returns a
\* success result without data.
C3_EmptyBundlePassThrough ==
    (entry = "process_burn_event" /\ IsSome(response) /\ SomeEntries(Unwrap(response)) = {})
        => /\ signatures = <<>>
           /\ "simulate" \notin Range(net)
           /\ "broadcast" \notin Range(net)
           /\ (PipelineDone => outcome = Some(Ok(BurnRecorded(None))))

\* C4: a broadcast answered with a nonzero code makes the pipeline return a
\* ServiceResponse with success false whose data is Some and carries the
\* digest in base64, the signature in hex and the public key; not an error.
C4_BroadcastFailureReported ==
    (PipelineDone /\ IsSome(cosm_res) /\ Unwrap(cosm_res).code # 0)
        => /\ IsOk(Unwrap(outcome))
           /\ ~Unwrap(outcome).val.success
           /\ Unwrap(outcome).val.data =
                 Some([pubkey_g2 |-> hex_encode(public_key(Unwrap(signer))),
                       base64_msg_hash |-> to_base64(Unwrap(msg_digest)),
                       msg |-> <<>>,
                       signature |-> hex_encode(signatures[1])])

\* C5: when a non-empty bundle was signed and broadcast and the answer has
\* code 0, the pipeline returns message "Burn recorded", success true, and
\* data Some carrying the digest, the signature and the public key.
C5_BroadcastSuccessCarriesData ==
    (PipelineDone /\ infusions # <<>> /\ IsSome(cosm_res) /\ Unwrap(cosm_res).code = 0)
        => /\ IsOk(Unwrap(outcome))
           /\ Unwrap(outcome).val.message = "Burn recorded"
           /\ Unwrap(outcome).val.success
           /\ Unwrap(outcome).val.data =
                 Some([pubkey_g2 |-> hex_encode(public_key(Unwrap(signer))),
                       base64_msg_hash |-> to_base64(Unwrap(msg_digest)),
                       msg |-> <<>>,
                       signature |-> hex_encode(signatures[1])])

\* a Cosmos event of type "wasm" whose action is "burn", with a sender and a
\* token id that parses
IsBurnEvent(t) ==
    /\ t.kind = "CosmosContractEvent"
    /\ t.event.ty = "wasm"
    /\ Find(t.event.attributes, "action") = Some(<<"action", "burn">>)
    /\ IsSome(Find(t.event.attributes, "sender"))
    /\ IsOk(parse_u64_attribute(t.event.attributes, "token_id"))

\* C6: run, given a wasm event with action burn, a sender and a valid token
\* id, executes the burn pipeline (the infuser contract is queried) instead of
\* returning the non-infusion response.
C6_BurnEventReachesPipeline ==
    (entry = "run" /\ pc = "done" /\ IsSome(trigger) /\ IsBurnEvent(Unwrap(trigger)))
        => /\ "query" \in Range(net)
           /\ result # Some(NonInfusion)

\* C7: whatever the input, the component returns a result value and never
\* panics.
C7_NeverPanics == IsSome(outcome) => ~IsPanic(Unwrap(outcome))

\* C8: form_wavs_tx, given signer infos and signatures of different lengths,
\* returns an error.
C8_MismatchedLengthsRejected ==
    (lib.fn = "form_wavs_tx" /\ Len(lib.args[3]) # Len(lib.args[4])) => IsErr(lib.ret)

\* the least position of the key among the attributes, 0 when absent
FirstIndex(attributes, key) ==
    IF \E i \in 1..Len(attributes) : attributes[i][1] = key
    THEN CHOOSE i \in 1..Len(attributes) :
            /\ attributes[i][1] = key
            /\ \A j \in 1..(i - 1) : attributes[j][1] # key
    ELSE 0

\* C9: both lookups answer from the first pair whose key matches: the string
\* lookup returns its value, the u64 lookup parses its value, and later pairs
\* with the same key are ignored.
C9_FirstMatchWins ==
    (lib.fn \in {"parse_string_attribute", "parse_u64_attribute"}
        /\ FirstIndex(lib.args[1], lib.args[2]) # 0)
        => LET v == lib.args[1][FirstIndex(lib.args[1], lib.args[2])][2]
           IN IF lib.fn = "parse_string_attribute" THEN lib.ret = Ok(v)
              ELSE /\ IsOk(lib.ret) <=> IsOk(parse_u64(v))
                   /\ IsOk(lib.ret) => lib.ret = parse_u64(v)

\* the key occurs twice with different values and the first is returned
C9_Witness ==
    /\ lib.fn = "parse_string_attribute"
    /\ Len(lib.args[1]) >= 2
    /\ lib.args[1][1][1] = lib.args[2]
    /\ lib.args[1][2][1] = lib.args[2]
    /\ lib.args[1][1][2] # lib.args[1][2][2]
    /\ lib.ret = Ok(lib.args[1][1][2])

\* C10 as stated: the bundle holds one execute-contract message per response
\* entry whose count is Some.
C10_OneMessagePerEntry ==
    Built => Len(cosmic_wavs_actions) = Cardinality(SomeEntries(Unwrap(response)))

\* C10 as the code has it: one WavsBundle record per response entry whose
\* count is Some, in the order of the response, each with the burner, the
\* entry's collection address and the burnt token id; entries whose count is
\* None add nothing and raise no error; the records travel together in at most
\* one execute-contract message, WavsEntryPoint { infusions }.
C10_OneRecordPerEntry ==
    Built =>
        LET resp == Unwrap(response)
            a == Unwrap(args)
        IN /\ Len(infusions) = Cardinality(SomeEntries(resp))
           /\ \A j \in 1..Len(infusions) :
                 infusions[j] = [infuser |-> a.burner,
                                 nft_addr |-> resp[KthSome(resp, j)].addr,
                                 infused_ids |-> <<a.token_id>>]
           /\ Len(cosmic_wavs_actions) <= 1
           /\ (infusions # <<>> => Len(cosmic_wavs_actions) = 1)
           /\ \A m \in Range(cosmic_wavs_actions) :
                 /\ m.type_url = MSG_EXECUTE_CONTRACT_TYPE
                 /\ m = WavsAnyMsg(ActionSender(variant, Unwrap(env)),
                                   Unwrap(Unwrap(env).cw_infuser), infusions)

\* a response with two sanctioning entries and one that is not, built into
\* two records
C10_Witness ==
    /\ Built
    /\ Cardinality(SomeEntries(Unwrap(response))) = 2
    /\ Len(Unwrap(response)) = 3
    /\ Len(infusions) = 2
    /\ Len(cosmic_wavs_actions) = 1

\* the collection addresses of the sanctioning entries, in response order
AddrsOfSome(resp) ==
    [j \in 1..Cardinality(SomeEntries(resp)) |-> resp[KthSome(resp, j)].addr]

\* the response with entries i and i + 1 exchanged
SwapAt(resp, i) ==
    [k \in 1..Len(resp) |-> IF k = i THEN resp[i + 1] ELSE IF k = i + 1 THEN resp[i] ELSE resp[k]]

\* C11: the records the operator signs are in the order of the response
\* entries whose count is Some, never reordered, sorted or deduplicated; a
\* response that differs only in the order of those entries gives records in
\* a different order.
C11_OrderPreserved ==
    Built =>
        LET resp == Unwrap(response)
            a == Unwrap(args)
        IN /\ [j \in 1..Len(infusions) |-> infusions[j].nft_addr] = AddrsOfSome(resp)
           /\ \A i \in 1..(Len(resp) - 1) :
                 AddrsOfSome(SwapAt(resp, i)) # AddrsOfSome(resp)
                     => BuildInfusions(SwapAt(resp, i), a.burner, a.token_id) # infusions

\* three sanctioning entries, neither sorted nor free of repeats, kept as they came
C11_Witness ==
    /\ Built
    /\ Len(infusions) = 3
    /\ infusions[1].nft_addr = "nft1def"
    /\ infusions[2].nft_addr = "nft1abc"
    /\ infusions[3].nft_addr = "nft1def"

\* C12: every transaction body built for an event observed at height h has
\* timeout_height = h + 100.
C12_TimeoutHeight ==
    (entry = "process_burn_event" /\ IsSome(tx_body))
        => /\ ~U64MulAdd(Unwrap(args).block_height, 1, 100).overflow
           /\ Unwrap(tx_body).timeout_height = U64MulAdd(Unwrap(args).block_height, 1, 100).val

\* C13: for every simulated gas value g the envelope has fee.gas_limit = 2 * g
\* and empty payer and granter.
C13_GasLimitDoubled ==
    lib.fn = "form_wavs_tx"
        => /\ IsOk(lib.ret)
           /\ ~U64MulAdd(lib.args[2], 2, 0).overflow
           /\ Unwrap(Unwrap(lib.ret.val.auth_info).fee).gas_limit = U64MulAdd(lib.args[2], 2, 0).val
           /\ Unwrap(Unwrap(lib.ret.val.auth_info).fee).payer = ""
           /\ Unwrap(Unwrap(lib.ret.val.auth_info).fee).granter = ""

\* C19: when no attribute carries the key, both lookups return a
\* missing-attribute error that names the requested key.
C19_MissingErrorNamesKey ==
    (lib.fn \in {"parse_string_attribute", "parse_u64_attribute"}
        /\ FirstIndex(lib.args[1], lib.args[2]) = 0)
        => lib.ret = Err("Missing " \o lib.args[2] \o " attribute")

\* C20: parse_u64_attribute returns the missing-attribute error exactly when
\* no attribute has the key, the parse-failure error exactly when the first
\* attribute with the key holds no valid u64, whatever later ones hold, and
\* otherwise the number of that first value.
C20_TwoFailuresDistinguished ==
    lib.fn = "parse_u64_attribute" =>
        LET i == FirstIndex(lib.args[1], lib.args[2])
            missing == Err("Missing " \o lib.args[2] \o " attribute")
            unparsable == Err("Failed to parse " \o lib.args[2] \o " attribute to u64")
        IN /\ (lib.ret = missing) <=> (i = 0)
           /\ (lib.ret = unparsable) <=> (i # 0 /\ ~IsOk(parse_u64(lib.args[1][i][2])))
           /\ (i # 0 /\ IsOk(parse_u64(lib.args[1][i][2])))
                 => lib.ret = parse_u64(lib.args[1][i][2])
           /\ missing # unparsable

\* an unparsable first value before a valid one: the parse failure is returned
C20_Witness ==
    /\ lib.fn = "parse_u64_attribute"
    /\ lib.args[2] = "token_id"
    /\ Len(lib.args[1]) >= 2
    /\ lib.args[1][1] = <<"token_id", "4x">>
    /\ lib.args[1][2] = <<"token_id", "42">>
    /\ lib.ret = Err("Failed to parse token_id attribute to u64")

\* decode_trigger_event has returned to run
DecodeDone == entry = "run" /\ IsSome(trigger) /\ pc \notin {"idle", "decode"}

\* decode_trigger_event returned an error, which run returned in turn
DecodeFailed == decoded = None /\ pc = "done" /\ IsSome(outcome) /\ IsErr(Unwrap(outcome))

\* a wasm event whose first action attribute is burn and whose sender is
\* missing, or whose first token_id is missing or not a u64
IsBrokenBurnEvent(t) ==
    /\ t.kind = "CosmosContractEvent"
    /\ t.event.ty = "wasm"
    /\ FirstIndex(t.event.attributes, "action") # 0
    /\ t.event.attributes[FirstIndex(t.event.attributes, "action")][2] = "burn"
    /\ \/ FirstIndex(t.event.attributes, "sender") = 0
       \/ FirstIndex(t.event.attributes, "token_id") = 0
       \/ ~IsOk(parse_u64(t.event.attributes[FirstIndex(t.event.attributes, "token_id")][2]))

\* the Ethereum, Raw and unsupported cases, on which the claim and the code agree
DecodeOtherVariants(t) ==
    CASE t.kind = "EthContractEvent" ->
            IF t.log_ok /\ t.info_ok
            THEN /\ IsSome(decoded)
                 /\ Unwrap(decoded)[1] = t.triggerId
                 /\ Unwrap(decoded)[2] = t.data
                 /\ Unwrap(decoded)[3] = "Ethereum"
            ELSE DecodeFailed
      [] t.kind = "Raw" ->
            /\ IsSome(decoded)
            /\ Unwrap(decoded)[1] = U64Zero
            /\ Unwrap(decoded)[2] = t.data
            /\ Unwrap(decoded)[3] = "CliOutput"
      [] OTHER -> DecodeFailed

\* C17 as stated: a chain-contract log decodes to (trigger id, payload,
\* Ethereum), every Cosmos contract event to destination Cosmos, a Raw trigger
\* to (0, its bytes, CliOutput), any other trigger to an error.
C17_DecodeByVariant ==
    DecodeDone =>
        IF Unwrap(trigger).kind = "CosmosContractEvent"
        THEN IsSome(decoded) /\ Unwrap(decoded)[3] = "Cosmos"
        ELSE DecodeOtherVariants(Unwrap(trigger))

\* C17 as the code has it: a Cosmos contract event decodes to destination
\* Cosmos unless it is a wasm burn event whose sender is missing or whose
\* token_id is missing or not a u64, which is an error; a chain-contract log
\* that decodes gives (trigger id, payload, Ethereum) and one that does not is
\* an error; a Raw trigger gives (0, its bytes, CliOutput); any other trigger
\* is an error.
C17_DecodeByVariantOrError ==
    DecodeDone =>
        IF Unwrap(trigger).kind = "CosmosContractEvent"
        THEN IF IsBrokenBurnEvent(Unwrap(trigger)) THEN DecodeFailed
             ELSE IsSome(decoded) /\ Unwrap(decoded)[3] = "Cosmos"
        ELSE DecodeOtherVariants(Unwrap(trigger))

\* a transfer event decoded to an empty payload for Cosmos
C17_Witness ==
    /\ DecodeDone
    /\ Unwrap(trigger).kind = "CosmosContractEvent"
    /\ Unwrap(trigger).event.ty = "transfer"
    /\ decoded = Some(<<U64Zero, <<>>, "Cosmos", Some("transfer")>>)

\* run has returned an output
RunReturned == entry = "run" /\ pc = "done" /\ IsSome(outcome) /\ IsOk(Unwrap(outcome))

\* C18: for destination Ethereum run's output is DataWithId with the trigger
\* id decoded from the input event and the serialized result as data; for
\* destination Cosmos or CliOutput it is the serialized result unchanged.
C18_EncodeByDestination ==
    RunReturned =>
        LET json == ServiceResponseJson(Unwrap(result))
            out == Unwrap(outcome).val
        IN /\ Unwrap(decoded)[3] \in {"Ethereum", "Cosmos", "CliOutput"}
           /\ Unwrap(decoded)[3] = "Ethereum" =>
                 out = Some("DataWithId{triggerId:" \o U64Text(Unwrap(trigger).triggerId)
                            \o ",data:" \o json \o "}")
           /\ Unwrap(decoded)[3] # "Ethereum" => out = Some(json)

\* a log with trigger id 7 answered with the wrapped result
C18_Witness ==
    /\ RunReturned
    /\ Unwrap(trigger).kind = "EthContractEvent"
    /\ Unwrap(trigger).triggerId = U64(7)
    /\ Unwrap(outcome).val =
          Some("DataWithId{triggerId:0.0.0.0.0.0.0.7,data:"
               \o "{\"message\":\"non-infusion\",\"success\":true,\"data\":null}}")

\* C14: a signature made with sign(identity, None, digest) verifies against
\* the identity's public key and that digest under the scheme's
\* domain-separation tag, and fails to verify for every other digest.
C14_SignatureRoundTrip ==
    (bls.phase # "idle" /\ bls.namespace = None) =>
        \A j \in 1..Len(bls.arrived) :
            LET o == bls.arrived[j]
                pk == compute_public(bls.private[o])
            IN /\ bls.valid[j]
               /\ bls.pairing_ok[j]
               /\ \A d \in BlsMessages \ {SignedMessage(o)} :
                     /\ ~verify(None, d, pk, bls.signatures[j])
                     /\ ~bls12_381_pairing_equality(BLS12_381_G1_GENERATOR, bls.signatures[j],
                                                    pk, hash_to_g2(DST, d))

\* a digest signed without a namespace and verified
C14_Witness ==
    /\ bls.phase # "idle"
    /\ bls.namespace = None
    /\ Len(bls.arrived) >= 1
    /\ SignedMessage(bls.arrived[1]) = "digest2"
    /\ bls.valid[1]
    /\ bls.pairing_ok[1]

\* C15: the aggregate verifies against the signers' public keys and the
\* message when every signer signed the message; it fails when one signer
\* signed another message, and when one of the public keys used for
\* verification belongs to no signer.
C15_AggregateAuthorization ==
    bls.phase = "verified" =>
        /\ bls.scenario.kind = "honest" => Unwrap(bls.verdict)
        /\ bls.scenario.kind = "tamper" => ~Unwrap(bls.verdict)
        /\ (bls.scenario.kind = "wrong_key"
               /\ \A o \in Signers : bls.private[o] # bls.scenario.key)
              => ~Unwrap(bls.verdict)

\* the three cases have been verified: here the exchanged key is rejected
C15_Witness ==
    /\ bls.phase = "verified"
    /\ bls.scenario.kind = "wrong_key"
    /\ \A o \in Signers : bls.private[o] # bls.scenario.key
    /\ bls.verdict = Some(FALSE)

\* the signers that have signed, lowest first
RECURSIVE Ascending(_)
Ascending(S) ==
    IF S = {} THEN <<>>
    ELSE LET m == CHOOSE x \in S : \A y \in S : x <= y IN <<m>> \o Ascending(S \ {m})

Issued(call) == Cardinality({i \in 1..Len(net) : net[i] = call})

\* the contract query was issued and brought no response
QueryFailed == "query" \in Range(net) /\ response = None

\* C21: when the WavsRecord query fails, the cycle ends with an error that
\* carries the cause of the failure, the query is not issued again, and
\* nothing is signed, simulated or broadcast for the event.
C21_QueryFailureAborts ==
    /\ Issued("query") <= 1
    /\ QueryFailed =>
          /\ pc = "done"
          /\ outcome = Some(Err(IF entry = "run"
                                THEN "Failed to process burn event: contract query failed"
                                ELSE "contract query failed"))
          /\ net[Len(net)] = "query"
          /\ msg_digest = None
          /\ signatures = <<>>
          /\ gas = None
          /\ tx = None

\* the query failed after the connection and the cycle returned its error
C21_Witness ==
    /\ PipelineDone
    /\ QueryFailed
    /\ net = <<"connect", "query">>
    /\ Unwrap(outcome) = Err("contract query failed")

\* the gas simulation was issued and brought no gas
SimulateFailed == "simulate" \in Range(net) /\ gas = None

\* C22: when the simulate call fails, the cycle ends with an error, the
\* simulation is not issued again, and nothing is broadcast for the event.
C22_SimulationFailureFatal ==
    /\ Issued("simulate") <= 1
    /\ SimulateFailed =>
          /\ pc = "done"
          /\ outcome = Some(Err(IF entry = "run"
                                THEN "Failed to process burn event: gas simulation failed"
                                ELSE "gas simulation failed"))
          /\ net[Len(net)] = "simulate"
          /\ "broadcast" \notin Range(net)
          /\ signer_infos = <<>>
          /\ tx = None
          /\ cosm_res = None

\* the demo component signed, the simulation failed and the cycle returned its error
C22_Witness ==
    /\ PipelineDone
    /\ SimulateFailed
    /\ variant = "demo"
    /\ signatures # <<>>
    /\ Unwrap(outcome) = Err("gas simulation failed")

\* the operator's environment is complete and right but for a BLS private key
\* that does not decode
MalformedBlsKey ==
    /\ variant = "infusion"
    /\ IsSome(env)
    /\ Unwrap(env).mnemonic = Some(ValidMnemonic)
    /\ Unwrap(env).smart_acc_pk = Some(ValidAccPk)
    /\ Unwrap(env).cw_infuser = Some(ValidInfuser)
    /\ IsSome(Unwrap(env).bls_sk)
    /\ Unwrap(Unwrap(env).bls_sk) \notin ValidBlsKeyTexts

\* C23: a malformed BLS private key fails with an error value, never a panic,
\* and before any network call is issued for an event: no connection, query,
\* account lookup, simulation or broadcast happens under a malformed key, and
\* a cycle under it ends with the key's error.
C23_MalformedKeyFailsEarly ==
    MalformedBlsKey =>
        /\ net = <<>>
        /\ pc = "done" => IsSome(outcome) /\ IsErr(Unwrap(outcome))

\* the broadcast was issued and did not complete: no response came back
BroadcastIncomplete == pc = "done" /\ "broadcast" \in Range(net) /\ cosm_res = None

\* the broadcast was answered with a nonzero code
BroadcastRejected == pc = "done" /\ IsSome(cosm_res) /\ Unwrap(cosm_res).code # 0

\* C24: a broadcast that does not complete and a broadcast that is rejected
\* with a nonzero code are reported to the caller as outcomes of different
\* kinds: the first is an error, the second is not.
C24_AmbiguousBroadcastDistinct ==
    /\ BroadcastIncomplete => Unwrap(outcome).tag = "Err"
    /\ BroadcastRejected => Unwrap(outcome).tag # "Err"

\* the value of the first attribute with the key
FirstValue(attributes, key) == attributes[FirstIndex(attributes, key)][2]

\* C25: for a burn event, the collection address, token id and burner (and
\* the chain name, where it is carried) that run hands to the burn pipeline
\* are the event's contract address, token_id attribute and sender attribute
\* (and chain name).
C25_BurnPayloadRoundTrip ==
    (entry = "run" /\ IsSome(trigger) /\ IsBurnEvent(Unwrap(trigger))
     /\ pc \notin {"idle", "decode", "dispatch"})
        => LET t == Unwrap(trigger)
           IN /\ IsSome(args)
              /\ Unwrap(args).nft_addr = t.contract_address
              /\ Unwrap(args).token_id = FirstValue(t.event.attributes, "token_id")
              /\ Unwrap(args).burner = FirstValue(t.event.attributes, "sender")
              /\ variant = "infusion" => Unwrap(args).chain = t.chain_name

\* the position of the first call of the kind in the cycle's network calls,
\* 0 when there is none
IssuedAt(call) ==
    IF call \in Range(net) THEN CHOOSE i \in 1..Len(net) : net[i] = call /\ \A j \in 1..(i - 1) : net[j] # call
    ELSE 0

\* C26: in every execution of the burn pipeline the query has completed
\* before the digest is computed, the digest is computed before it is signed,
\* the signature and the simulated gas exist before the envelope is
\* assembled, and the broadcast is issued only after a successful simulation.
C26_StepOrdering ==
    /\ IsSome(msg_digest) =>
          /\ IsSome(response)
          /\ "query" \in Range(net)
          /\ Unwrap(msg_digest) = MsgDigest(cosmic_wavs_actions)
    /\ signatures # <<>> =>
          /\ IsSome(msg_digest)
          /\ signatures = <<sign(Unwrap(signer), None, Unwrap(msg_digest))>>
    /\ IsSome(gas) => "simulate" \in Range(net)
    /\ IsSome(tx) =>
          /\ signatures # <<>>
          /\ IsSome(gas)
          /\ Unwrap(tx).signatures = signatures
    /\ "broadcast" \in Range(net) =>
          /\ IsSome(tx)
          /\ IsSome(gas)
          /\ 0 < IssuedAt("query")
          /\ IssuedAt("query") < IssuedAt("simulate")
          /\ IssuedAt("simulate") < IssuedAt("broadcast")

\* a cycle of the infusion component that went through all its steps
C26_Witness ==
    /\ PipelineDone
    /\ variant = "infusion"
    /\ net = <<"connect", "query", "base_account", "simulate", "broadcast">>
    /\ IsSome(cosm_res)
    /\ Unwrap(cosm_res).code = 0

\* the BLS keys an operator can hold
ImportedSigners == {[sk |-> k.sk] : k \in {x \in BlsKeyTable : x.hex_ok /\ x.key_ok}}

\* C27: every envelope the pipeline submits has as many signatures as signer
\* infos, and the signature at each index was made over the digest of the
\* envelope's messages by the BLS key whose public key the signer info at
\* that index stores.
C27_EnvelopePairing ==
    IsSome(tx) =>
        LET t == Unwrap(tx)
            infos == Unwrap(t.auth_info).signer_infos
        IN /\ Len(t.signatures) = Len(infos)
           /\ Len(infos) > 0
           /\ \A i \in 1..Len(infos) :
                 /\ IsSome(infos[i].public_key)
                 /\ Unwrap(infos[i].public_key).type_url = "/cosmos.crypto.bls12_381.PubKey"
                 /\ i <= Len(t.signatures)
                 /\ \E k \in ImportedSigners :
                       /\ public_key(k) = Unwrap(infos[i].public_key).value
                       /\ t.signatures[i] = sign(k, None, MsgDigest(Unwrap(t.body).messages))

\* an envelope signed with the second key was broadcast
C27_Witness ==
    /\ IsSome(tx)
    /\ "broadcast" \in Range(net)
    /\ signer = Some([sk |-> "sk2"])
    /\ Len(Unwrap(tx).signatures) = 1
    /\ Unwrap(Unwrap(Unwrap(tx).auth_info).signer_infos[1].public_key).value = "bls_pk(sk2)"

\* the message of the error a broken burn event is refused with: the sender
\* is looked up first, then the token id, which is then parsed
DecodeErrorText(v, attributes) ==
    IF FirstIndex(attributes, "sender") = 0 THEN "Missing sender attribute"
    ELSE IF FirstIndex(attributes, "token_id") = 0 THEN "Missing token_id attribute"
    ELSE IF v = "infusion" THEN "Failed to parse token_id attribute to u64"
    ELSE "invalid digit found in string"

\* C28: for a wasm burn event that lacks the sender or the token_id
\* attribute, or whose token_id is not a u64, decode_trigger_event returns an
\* error, run returns the error's message, and no network call (connection,
\* query, account lookup, simulation, broadcast) is issued for the event.
C28_DecodeErrorsAbort ==
    (entry = "run" /\ IsSome(trigger) /\ IsBrokenBurnEvent(Unwrap(trigger))
     /\ pc \notin {"idle", "decode"})
        => /\ pc = "done"
           /\ decoded = None
           /\ outcome = Some(Err(DecodeErrorText(variant, Unwrap(trigger).event.attributes)))
           /\ net = <<>>
           /\ args = None
           /\ result = None

\* a burn event with a sender and a token id that is not a number was refused
C28_Witness ==
    /\ entry = "run"
    /\ pc = "done"
    /\ variant = "infusion"
    /\ IsSome(trigger)
    /\ Unwrap(trigger).kind = "CosmosContractEvent"
    /\ Unwrap(trigger).event.attributes =
          <<<<"action", "burn">>, <<"sender", "cosmos1xyz">>, <<"token_id", "4x">>>>
    /\ Unwrap(trigger).event.ty = "wasm"
    /\ outcome = Some(Err("Failed to parse token_id attribute to u64"))

\* C29: in every cycle, whatever the query, the simulation and the broadcast
\* answer, the broadcast is issued at most once and the contract query at
\* most once, and a cycle that has returned issues nothing more.
C29_AtMostOneBroadcast ==
    /\ Issued("broadcast") <= 1
    /\ Issued("query") <= 1
    /\ "broadcast" \in Range(net) => net[Len(net)] = "broadcast"
    /\ (pc = "done" /\ IsSome(cosm_res)) => Issued("broadcast") = 1

\* a cycle whose one broadcast was rejected with code 13 has returned
C29_Witness ==
    /\ PipelineDone
    /\ Issued("broadcast") = 1
    /\ Issued("query") = 1
    /\ IsSome(cosm_res)
    /\ Unwrap(cosm_res).code = 13

\* C30: whenever run takes its burn branch (decode_trigger_event returned the
\* event type "burn"), the payload is long enough for every position the
\* branch reads: three, or four where the chain name is read.
C30_PayloadBounds ==
    (entry = "run" /\ IsSome(decoded) /\ Unwrap(decoded)[4] = Some("burn"))
        => Len(Unwrap(decoded)[2]) >= PayloadReads(variant)

====
